---------------------------- MODULE Spec2Model ----------------------------
(***************************************************************************)
(* A model of the PyMOL helper scripts supercell.py and cell_axes.py:      *)
(*   - cellbasis: cell parameters -> 4x4 basis matrix                      *)
(*   - supercell / symexpcell: lattice replicas, cell wireframe, symmetry  *)
(*     mates handed to the host                                            *)
(*   - PutCenterCallback / cell_axes: the view watcher and its             *)
(*     registration                                                        *)
(*                                                                         *)
(* Numbers.  The scripts compute in IEEE doubles.  The model computes in   *)
(* exact rationals <<n, d>> (d > 0, lowest terms) extended by the three    *)
(* non-finite doubles: <<1, 0>> is +inf, <<-1, 0>> is -inf, <<0, 0>> is    *)
(* NaN.  Rounding error is not modelled; the inputs below are chosen so    *)
(* that every cosine, sine and square root the code takes is rational.     *)
(***************************************************************************)
EXTENDS Integers, Sequences, FiniteSets, TLC

-----------------------------------------------------------------------------
(* Extended rational arithmetic (numpy float64 semantics for + - * / sqrt  *)
(* floor on finite and non-finite values).                                 *)

Abs(n) == IF n < 0 THEN -n ELSE n

Sign(n) == IF n < 0 THEN -1 ELSE IF n > 0 THEN 1 ELSE 0

RECURSIVE GCD(_, _)
GCD(x, y) == IF y = 0 THEN x ELSE GCD(y, x % y)

\* lowest terms, positive denominator; denominator 0 keeps only the sign
Norm(x) ==
    IF x[2] = 0 THEN <<Sign(x[1]), 0>>
    ELSE LET s == IF x[2] < 0 THEN -1 ELSE 1
             g == GCD(Abs(x[1]), Abs(x[2]))
         IN  <<(s * x[1]) \div g, (s * x[2]) \div g>>

R(n) == <<n, 1>>

Frac(n, d) == Norm(<<n, d>>)

NaN == <<0, 0>>

IsFinite(x) == x[2] # 0

IsNaN(x) == x = NaN

RMul(x, y) == Norm(<<x[1] * y[1], x[2] * y[2]>>)

RNeg(x) == <<-x[1], x[2]>>

RAdd(x, y) ==
    IF IsNaN(x) \/ IsNaN(y) THEN NaN
    ELSE IF ~IsFinite(x) /\ ~IsFinite(y)
         THEN (IF x = y THEN x ELSE NaN)
    ELSE IF ~IsFinite(x) THEN x
    ELSE IF ~IsFinite(y) THEN y
    ELSE Norm(<<x[1] * y[2] + y[1] * x[2], x[2] * y[2]>>)

RSub(x, y) == RAdd(x, RNeg(y))

\* x / y: a finite nonzero over zero is +-inf, 0/0 and inf/inf are NaN
RDiv(x, y) == RMul(x, Norm(<<y[2], y[1]>>))

RLe(x, y) == IsFinite(x) /\ IsFinite(y) /\ x[1] * y[2] <= y[1] * x[2]

RLt(x, y) == IsFinite(x) /\ IsFinite(y) /\ x[1] * y[2] < y[1] * x[2]

\* np.floor: the largest integer <= x; non-finite values pass through
RFloor(x) ==
    IF ~IsFinite(x) THEN x
    ELSE R(IF x[1] >= 0 THEN x[1] \div x[2]
           ELSE -((-x[1] + x[2] - 1) \div x[2]))

ISqrt(n) == CHOOSE k \in 0..n : k * k = n

\* np.sqrt: NaN (with a warning, no exception) for a negative argument
RSqrt(x) ==
    IF IsNaN(x) \/ x[1] < 0 THEN NaN
    ELSE IF ~IsFinite(x) THEN x
    ELSE <<ISqrt(x[1]), ISqrt(x[2])>>

-----------------------------------------------------------------------------
(* Angles.  An angle is named by its size in hundredths of a degree.  Pyth *)
(* is arccos(3/5) = 53.13 degrees, the angle of the 3-4-5 triangle.        *)

Deg0 == 0 * 100

Deg90 == 90 * 100

Pyth == 53 * 100 + 13

\* np.cos(np.deg2rad(angle))
Cos(angle) ==
    CASE angle = Deg0  -> R(1)
      [] angle = Deg90 -> R(0)
      [] angle = Pyth  -> Frac(3, 5)

\* np.sin(np.deg2rad(angle))
Sin(angle) ==
    CASE angle = Deg0  -> R(0)
      [] angle = Deg90 -> R(1)
      [] angle = Pyth  -> Frac(4, 5)

-----------------------------------------------------------------------------
(* Matrices are sequences of rows; the source's indices start at 0.        *)

At(m, r, c) == m[r + 1][c + 1]

\* tuples are built entry by entry, so that each entry is computed once
Vec4(f(_)) == <<f(1), f(2), f(3), f(4)>>

Vec3(f(_)) == <<f(1), f(2), f(3)>>

Mat4(f(_, _)) ==
    LET row(r) == LET e(c) == f(r, c) IN Vec4(e) IN Vec4(row)

\* np.identity(4)
Identity4 == LET e(r, c) == IF r = c THEN R(1) ELSE R(0) IN Mat4(e)

SetAt(m, r, c, v) == [m EXCEPT ![r + 1][c + 1] = v]

AllFinite(m) == \A r \in DOMAIN m : \A c \in DOMAIN m[r] : IsFinite(m[r][c])

\* cellbasis, lines 15-21: the unit basis from the angles
UnitBasis(angles) ==
    LET b0 == Identity4
        b1 == SetAt(b0, 0, 1, Cos(angles[3]))
        b2 == SetAt(b1, 1, 1, Sin(angles[3]))
        b3 == SetAt(b2, 0, 2, Cos(angles[2]))
        b4 == SetAt(b3, 1, 2,
                    RDiv(RSub(Cos(angles[1]), RMul(At(b3, 0, 1), At(b3, 0, 2))),
                         At(b3, 1, 1)))
        b5 == SetAt(b4, 2, 2,
                    RSqrt(RSub(RSub(R(1), RMul(At(b4, 0, 2), At(b4, 0, 2))),
                               RMul(At(b4, 1, 2), At(b4, 1, 2)))))
    IN  b5

\* edges.append(1.0): the caller's list object grows by one element
AppendOne(edges) == Append(edges, R(1))

\* basis * edges: numpy broadcasts a length-4 vector over the rows of a 4x4
\* array (entry [r][c] times edges[c]); any other length raises ValueError
Broadcast(basis, edges) ==
    IF Len(edges) = 4
    THEN [outcome |-> "ok",
          basis   |-> LET e(r, c) == RMul(basis[r][c], edges[c]) IN Mat4(e)]
    ELSE [outcome |-> "ValueError", basis |-> <<>>]

\* cellbasis(angles, edges): the returned matrix (or the exception) and the
\* edges list as the call leaves it
cellbasis(angles, edges) ==
    LET e == AppendOne(edges)
        res == Broadcast(UnitBasis(angles), e)
    IN  [outcome |-> res.outcome, basis |-> res.basis, edges |-> e]


-----------------------------------------------------------------------------
(* Vectors and 4x4 matrices.                                               *)

VAdd(u, v) == LET e(n) == RAdd(u[n], v[n]) IN Vec3(e)

\* basis[0:3, i]: column i of the upper-left 3x3 block
Col(basis, i) == <<At(basis, 0, i), At(basis, 1, i), At(basis, 2, i)>>

RSum4(a, b, c, d) == RAdd(RAdd(RAdd(a, b), c), d)

MatMul(x, y) ==
    LET e(r, c) == RSum4(RMul(x[r][1], y[1][c]), RMul(x[r][2], y[2][c]),
                         RMul(x[r][3], y[3][c]), RMul(x[r][4], y[4][c]))
    IN  Mat4(e)

MatVec(x, v) ==
    LET e(r) == RSum4(RMul(x[r][1], v[1]), RMul(x[r][2], v[2]),
                      RMul(x[r][3], v[3]), RMul(x[r][4], v[4]))
    IN  Vec4(e)

NaNMatrix == LET e(r, c) == NaN IN Mat4(e)

\* the inverse of an upper triangular matrix, by back substitution from the
\* last row up; cellbasis returns upper triangular matrices only
UpperInverse(u) ==
    LET d(i) == RDiv(R(1), u[i][i])
        row4 == <<R(0), R(0), R(0), d(4)>>
        row3 == <<R(0), R(0), d(3), RNeg(RMul(d(3), RMul(u[3][4], row4[4])))>>
        e2(j) == RNeg(RMul(d(2), RAdd(RMul(u[2][3], row3[j]), RMul(u[2][4], row4[j]))))
        row2 == <<R(0), d(2), e2(3), e2(4)>>
        e1(j) == RNeg(RMul(d(1), RAdd(RAdd(RMul(u[1][2], row2[j]), RMul(u[1][3], row3[j])),
                                      RMul(u[1][4], row4[j]))))
        row1 == <<d(1), e1(2), e1(3), e1(4)>>
    IN  <<row1, row2, row3, row4>>

Invertible(m) == AllFinite(m) /\ \A n \in 1..4 : m[n][n] # R(0)

\* basis.I (numpy.linalg.inv): the inverse; LinAlgError for a singular matrix.
\* For a matrix with NaN or inf entries LAPACK either reports a zero pivot
\* (LinAlgError) or returns a matrix of NaN, depending on where they sit: both
\* outcomes are kept.
Inverse(m) ==
    IF Invertible(m)
    THEN {[outcome |-> "ok", inv |-> UpperInverse(m)]}
    ELSE IF AllFinite(m)
    THEN {[outcome |-> "LinAlgError", inv |-> <<>>]}
    ELSE {[outcome |-> "LinAlgError", inv |-> <<>>],
          [outcome |-> "ok", inv |-> NaNMatrix]}

-----------------------------------------------------------------------------
(* The host: one molecular object with its symmetry record and extent.     *)

\* xray.sg_sym_to_mat_list(spacegroup): the operators of the space group, in
\* fractional coordinates, in the order of the host's table
sg_sym_to_mat_list(spacegroup) ==
    LET id == Identity4
        inversion == <<<<R(-1), R(0), R(0), R(0)>>,
                       <<R(0), R(-1), R(0), R(0)>>,
                       <<R(0), R(0), R(-1), R(0)>>,
                       <<R(0), R(0), R(0), R(1)>>>>
        screw == <<<<R(-1), R(0), R(0), R(0)>>,
                   <<R(0), R(1), R(0), Frac(1, 2)>>,
                   <<R(0), R(0), R(-1), R(0)>>,
                   <<R(0), R(0), R(0), R(1)>>>>
    IN  CASE spacegroup = "P 1"      -> <<id>>
          [] spacegroup = "P -1"     -> <<id, inversion>>
          [] spacegroup = "P 1 21 1" -> <<id, screw>>

\* "%d" % n: the decimal digits of an integer, one character per element
Digit(n) == CASE n = 0 -> "0" [] n = 1 -> "1" [] n = 2 -> "2" [] n = 3 -> "3"
              [] n = 4 -> "4" [] n = 5 -> "5" [] n = 6 -> "6" [] n = 7 -> "7"
              [] n = 8 -> "8" [] n = 9 -> "9"

RECURSIVE Digits(_)
Digits(n) == IF n < 10 THEN <<Digit(n)>> ELSE Append(Digits(n \div 10), Digit(n % 10))

Dec(n) == IF n < 0 THEN <<"-">> \o Digits(-n) ELSE Digits(n)

\* "m%d%d%d_" % tuple(t)
MatePrefix(t) == <<"m">> \o Dec(t[1]) \o Dec(t[2]) \o Dec(t[3]) \o <<"_">>

\* "%s%d" % (prefix, i)
MateName(prefix, i) == prefix \o Dec(i)

-----------------------------------------------------------------------------
(* State.                                                                  *)

VARIABLES
    \* a caller of cellbasis that keeps its two argument lists
    angles,      \* the angles list object
    edges,       \* the edges list object
    returned,    \* what each call so far returned, in order
    \* the host scene and one supercell / symexpcell command
    sym,         \* cmd.get_symmetry(object): edges, angles, space group
    extent,      \* cmd.get_extent(object): <<min corner, max corner>>
    pc,          \* "idle", "loop" (supercell inside `for t in ts`), "done", "error"
    args,        \* the command's arguments
    basis,       \* supercell's local basis
    ts,          \* supercell's list of offsets
    t_idx,       \* position of `for t in ts` (1-based)
    obj,         \* supercell's CGO list
    hostcalls,   \* the calls made on the host, in order
    \* the host scene around cell_axes and its view watchers
    objects,     \* cmd.get_names("objects"): the target "cell_axes" and callback numbers
    callbacks,   \* callback number n ("_cb%02d" % n) -> the PutCenterCallback loaded under it
    view,        \* cmd.get_view(): 18 numbers
    viewport,    \* cmd.get_viewport()
    tasks,       \* callback number -> threads started on cmd.delete(cb_name), not yet run
    pc_ca,       \* cell_axes: "idle", or "loaded" between lines 146 and 147
    cmds,        \* cell_axes commands issued so far
    spawned,     \* per watcher created (in order of creation): threads it has started
    last_tick,   \* what the latest render tick of a watcher saw and did
    ttt,         \* the TTT matrix of the target, as last set by set_object_ttt
    auto_zoom    \* the host setting auto_zoom

basisVars == <<angles, edges, returned>>

cellVars == <<sym, extent, pc, args, basis, ts, t_idx, obj, hostcalls>>

watchVars == <<objects, callbacks, view, viewport, tasks, pc_ca, cmds, spawned,
               last_tick, ttt, auto_zoom>>

-----------------------------------------------------------------------------
(* supercell.py                                                            *)

\* lines 68-72: the three nested loops that fill ts
RECURSIVE ForK(_, _, _, _)
ForK(i, j, k, c) == IF k >= c THEN <<>> ELSE <<<<i, j, k>>>> \o ForK(i, j, k + 1, c)

RECURSIVE ForJ(_, _, _, _)
ForJ(i, j, b, c) == IF j >= b THEN <<>> ELSE ForK(i, j, 0, c) \o ForJ(i, j + 1, b, c)

RECURSIVE ForI(_, _, _, _)
ForI(i, a, b, c) == IF i >= a THEN <<>> ELSE ForJ(i, 0, b, c) \o ForI(i + 1, a, b, c)

\* the loops nested the other way round: c outermost, a innermost
RECURSIVE ForIInner(_, _, _, _)
ForIInner(i, j, k, a) == IF i >= a THEN <<>> ELSE <<<<i, j, k>>>> \o ForIInner(i + 1, j, k, a)

RECURSIVE ForJMiddle(_, _, _, _)
ForJMiddle(j, k, a, b) ==
    IF j >= b THEN <<>> ELSE ForIInner(0, j, k, a) \o ForJMiddle(j + 1, k, a, b)

RECURSIVE ForKOuter(_, _, _, _)
ForKOuter(k, a, b, c) ==
    IF k >= c THEN <<>> ELSE ForJMiddle(0, k, a, b) \o ForKOuter(k + 1, a, b, c)

EnumerateInnerFirst(a, b, c) == ForKOuter(0, a, b, c)

Enumerate(a, b, c) == ForI(0, a, b, c)

\* cmd.get_color_tuple(color) for the default color "blue"
ColorTuple == <<R(0), R(0), R(1)>>

\* lines 74-79
ObjHeader == <<"BEGIN", "LINES", "COLOR">> \o ColorTuple

\* lines 82-83: basis[0:3, 0:3] * t broadcasts t over the rows, then the three
\* columns are added
Shift(b, t) ==
    LET e(r) == RAdd(RAdd(RMul(b[r][1], R(t[1])), RMul(b[r][2], R(t[2]))),
                     RMul(b[r][3], R(t[3])))
    IN  Vec3(e)

\* the corners with the second neighbour axis taken as (i + 1) % 3 too
CornersOneNeighbour(b, i) ==
    << <<R(0), R(0), R(0)>>,
       Col(b, (i + 1) % 3),
       Col(b, (i + 1) % 3),
       VAdd(Col(b, (i + 1) % 3), Col(b, (i + 1) % 3)) >>

\* lines 87-92: the four corners vj for axis i
Corners(b, i) ==
    << <<R(0), R(0), R(0)>>,
       Col(b, (i + 1) % 3),
       Col(b, (i + 2) % 3),
       VAdd(Col(b, (i + 1) % 3), Col(b, (i + 2) % 3)) >>

\* lines 93-97 for one corner j: VERTEX, x, y, z, VERTEX, x, y, z
Segment(b, t, i, j) ==
    LET shift == Shift(b, t)
        vi == Col(b, i)
        vj == Corners(b, i)
    IN  <<"VERTEX">> \o VAdd(shift, vj[j + 1])
        \o <<"VERTEX">> \o VAdd(VAdd(shift, vj[j + 1]), vi)

\* lines 93-97: the four segments of axis i
AxisSegments(b, t, i) ==
    Segment(b, t, i, 0) \o Segment(b, t, i, 1) \o Segment(b, t, i, 2) \o Segment(b, t, i, 3)

\* line 143: sum(np.array(extent)) * 0.5
Center(ext) ==
    LET e(n) == RMul(RAdd(R(ext[1][n]), R(ext[2][n])), Frac(1, 2)) IN Vec3(e)

\* the shift rounded towards zero instead of down
WrapShiftTruncated(mat, center_cell) ==
    LET image == MatVec(mat, center_cell)
        e(n) == IF RLt(image[n], R(0)) THEN RNeg(RFloor(RNeg(image[n]))) ELSE RFloor(image[n])
    IN  Vec4(e)

\* line 155: np.floor(mat * center_cell)
WrapShift(mat, center_cell) ==
    LET image == MatVec(mat, center_cell)
        e(n) == RFloor(image[n])
    IN  Vec4(e)

\* lines 155-157: the operator with its translation wrapped and offset
AdjustedOp(mat, center_cell, extra_shift) ==
    LET shift == WrapShift(mat, center_cell)
        e(r, c) == IF r <= 3 /\ c = 4
                   THEN RAdd(RSub(mat[r][c], shift[r]), R(extra_shift[r]))
                   ELSE mat[r][c]
    IN  Mat4(e)

\* lines 151-165 for the operator at 1-based position i: the three host calls
MateCalls(prefix, i, mat, b, inv, center_cell, t) ==
    LET model == MatMul(MatMul(b, AdjustedOp(mat, center_cell, t)), inv)
        name == MateName(prefix, i)
    IN  << [cmd |-> "create", name |-> name, arg |-> <<>>, t |-> t, op |-> i],
           [cmd |-> "transform_object", name |-> name, arg |-> model, t |-> t, op |-> i],
           [cmd |-> "color", name |-> name, arg |-> <<i + 1>>, t |-> t, op |-> i] >>

RECURSIVE MateLoop(_, _, _, _, _, _, _)
MateLoop(prefix, i, matrices, b, inv, center_cell, t) ==
    IF i > Len(matrices) THEN <<>>
    ELSE MateCalls(prefix, i, matrices[i], b, inv, center_cell, t)
         \o MateLoop(prefix, i + 1, matrices, b, inv, center_cell, t)

\* symexpcell(prefix, object, a, b, c), t = <<a, b, c>>: the possible outcomes,
\* each with the host calls it makes
symexpcell(prefix, s, ext, t) ==
    LET b == cellbasis(s.angles, s.edges).basis
        center == Center(ext) \o <<R(1)>>
    IN  { IF i.outcome = "ok"
          THEN [outcome |-> "ok",
                calls |-> MateLoop(prefix, 1, sg_sym_to_mat_list(s.spacegroup),
                                   b, i.inv, MatVec(i.inv, center), t)]
          ELSE [outcome |-> i.outcome, calls |-> <<>>]
          : i \in Inverse(b) }

NoArgs == [cmd |-> "", a |-> 0, b |-> 0, c |-> 0, withmates |-> 0]

\* supercell, lines 57-79: up to the start of `for t in ts`
SupercellBegin(a, b, c, withmates) ==
    /\ pc = "idle"
    /\ pc' = "loop"
    /\ args' = [cmd |-> "supercell", a |-> a, b |-> b, c |-> c, withmates |-> withmates]
    /\ basis' = cellbasis(sym.angles, sym.edges).basis
    /\ ts' = Enumerate(a, b, c)
    /\ t_idx' = 1
    /\ obj' = ObjHeader
    /\ UNCHANGED <<sym, extent, hostcalls>>

\* supercell, lines 81-100: one pass of `for t in ts`.  Each of the three
\* passes of `for i in range(3)` draws four segments and, with withmates, ends
\* with the call of symexpcell (line 99 is indented into that loop); an
\* exception of the first call ends the command.
SupercellReplica ==
    /\ pc = "loop"
    /\ t_idx <= Len(ts)
    /\ LET t == ts[t_idx]
           drawn == obj \o AxisSegments(basis, t, 0) \o AxisSegments(basis, t, 1)
                        \o AxisSegments(basis, t, 2)
       IN  IF args.withmates # 0
           THEN \E r \in symexpcell(MatePrefix(t), sym, extent, t) :
                   IF r.outcome = "ok"
                   THEN /\ hostcalls' = hostcalls \o r.calls \o r.calls \o r.calls
                        /\ obj' = drawn
                        /\ pc' = pc
                        /\ t_idx' = t_idx + 1
                   ELSE /\ pc' = "error"
                        /\ obj' = obj \o AxisSegments(basis, t, 0)
                        /\ UNCHANGED <<hostcalls, t_idx>>
           ELSE /\ obj' = drawn
                /\ t_idx' = t_idx + 1
                /\ UNCHANGED <<pc, hostcalls>>
    /\ UNCHANGED <<sym, extent, args, basis, ts>>

\* supercell, lines 102-105
SupercellEnd ==
    /\ pc = "loop"
    /\ t_idx > Len(ts)
    /\ pc' = "done"
    /\ obj' = Append(obj, "END")
    /\ hostcalls' = hostcalls \o
          << [cmd |-> "delete", name |-> <<"supercell">>, arg |-> <<>>, t |-> <<>>, op |-> 0],
             [cmd |-> "load_cgo", name |-> <<"supercell">>, arg |-> <<>>, t |-> <<>>, op |-> 0] >>
    /\ UNCHANGED <<sym, extent, args, basis, ts, t_idx>>

\* the symexpcell command called on its own, with the default prefix "mate"
SymexpcellCmd(a, b, c) ==
    /\ pc = "idle"
    /\ args' = [cmd |-> "symexpcell", a |-> a, b |-> b, c |-> c, withmates |-> 1]
    /\ \E r \in symexpcell(<<"m", "a", "t", "e">>, sym, extent, <<a, b, c>>) :
          /\ pc' = IF r.outcome = "ok" THEN "done" ELSE "error"
          /\ hostcalls' = hostcalls \o r.calls
    /\ UNCHANGED <<sym, extent, basis, ts, t_idx, obj>>

-----------------------------------------------------------------------------
(* Inputs and bounds.                                                      *)

\* repeat counts a, b, c of supercell range over 0..MaxRep
MaxRep == 2

\* offsets a, b, c of a symexpcell command range over -MaxOff..MaxOff
MaxOff == 1

\* calls of cellbasis a caller makes on the same two list objects
MaxCalls == 2

\* angle triples (alpha, beta, gamma): four cells with a rational basis, then
\* gamma = 0 (sin(gamma) = 0) and alpha = beta = 0 (negative radicand)
AngleTriples ==
    { <<Deg90, Deg90, Deg90>>, <<Deg90, Deg90, Pyth>>, <<Deg90, Pyth, Deg90>>,
      <<Pyth, Deg90, Deg90>>, <<Deg90, Deg90, Deg0>>, <<Deg0, Deg0, Deg90>> }

EdgeLengths == {10, 20, 30}

\* the extents cmd.get_extent may return: a center inside the origin cell and
\* one outside it
Inside == << <<0, 0, 0>>, <<4, 4, 4>> >>

Outside == << <<-14, -6, 20>>, <<-10, 2, 50>> >>

\* the molecular objects of the host: what cmd.get_symmetry and cmd.get_extent
\* return for each.  The last two cells are degenerate (gamma = 0; alpha =
\* beta = 0).
Hosts ==
    LET e == <<R(10), R(20), R(30)>>
    IN  { [sym |-> [edges |-> e, angles |-> <<Deg90, Deg90, Deg90>>, spacegroup |-> "P 1"],
           extent |-> Inside],
          [sym |-> [edges |-> e, angles |-> <<Deg90, Deg90, Pyth>>, spacegroup |-> "P -1"],
           extent |-> Outside],
          [sym |-> [edges |-> e, angles |-> <<Deg90, Pyth, Deg90>>, spacegroup |-> "P 1 21 1"],
           extent |-> Outside],
          [sym |-> [edges |-> e, angles |-> <<Deg90, Deg90, Deg0>>, spacegroup |-> "P 1"],
           extent |-> Inside],
          [sym |-> [edges |-> e, angles |-> <<Deg0, Deg0, Deg90>>, spacegroup |-> "P -1"],
           extent |-> Outside] }

-----------------------------------------------------------------------------
(* A caller that calls cellbasis repeatedly with the same list objects.    *)

CallCellbasis ==
    /\ Len(returned) < MaxCalls
    /\ LET r == cellbasis(angles, edges)
       IN  /\ edges' = r.edges
           /\ returned' = Append(returned, [outcome |-> r.outcome, basis |-> r.basis])
    /\ UNCHANGED angles

BasisIdle ==
    /\ angles = <<>>
    /\ edges = <<>>
    /\ returned = <<>>

CellIdle ==
    /\ sym = [edges |-> <<>>, angles |-> <<>>, spacegroup |-> ""]
    /\ extent = <<>>
    /\ pc = "off"
    /\ args = NoArgs
    /\ basis = <<>>
    /\ ts = <<>>
    /\ t_idx = 0
    /\ obj = <<>>
    /\ hostcalls = <<>>

WatchIdle ==
    /\ objects = {}
    /\ callbacks = <<>>
    /\ view = <<>>
    /\ viewport = <<>>
    /\ tasks = <<>>
    /\ pc_ca = "off"
    /\ cmds = 0
    /\ spawned = <<>>
    /\ last_tick = <<>>
    /\ ttt = <<>>
    /\ auto_zoom = 1

vars == <<basisVars, cellVars, watchVars>>

InitBasis ==
    /\ angles \in AngleTriples
    /\ edges \in {<<R(x), R(y), R(z)>> : x \in EdgeLengths, y \in EdgeLengths, z \in EdgeLengths}
    /\ returned = <<>>
    /\ CellIdle
    /\ WatchIdle

NextBasis == CallCellbasis /\ UNCHANGED <<cellVars, watchVars>>

SpecBasis == InitBasis /\ [][NextBasis]_vars

CellInit(hosts) ==
    /\ \E h \in hosts : sym = h.sym /\ extent = h.extent
    /\ pc = "idle"
    /\ args = NoArgs
    /\ basis = <<>>
    /\ ts = <<>>
    /\ t_idx = 0
    /\ obj = <<>>
    /\ hostcalls = <<>>

Init == CellInit(Hosts) /\ BasisIdle /\ WatchIdle

Next ==
    \/ \E a \in 0..MaxRep, b \in 0..MaxRep, c \in 0..MaxRep, w \in {0, 1} :
          SupercellBegin(a, b, c, w) /\ UNCHANGED <<basisVars, watchVars>>
    \/ SupercellReplica /\ UNCHANGED <<basisVars, watchVars>>
    \/ SupercellEnd /\ UNCHANGED <<basisVars, watchVars>>
    \/ \E a \in -MaxOff..MaxOff, b \in -MaxOff..MaxOff, c \in -MaxOff..MaxOff :
          SymexpcellCmd(a, b, c) /\ UNCHANGED <<basisVars, watchVars>>

Spec == Init /\ [][Next]_vars

\* supercell runs with repeat counts of two digits, on the cubic P 1 crystal
LargeRepeats == { <<1, 12, 11>>, <<12, 11, 1>> }

InitLarge ==
    /\ CellInit({h \in Hosts : h.sym.spacegroup = "P 1" /\ h.sym.angles = <<Deg90, Deg90, Deg90>>})
    /\ BasisIdle
    /\ WatchIdle

NextLarge ==
    \/ \E r \in LargeRepeats :
          SupercellBegin(r[1], r[2], r[3], 1) /\ UNCHANGED <<basisVars, watchVars>>
    \/ SupercellReplica /\ UNCHANGED <<basisVars, watchVars>>
    \/ SupercellEnd /\ UNCHANGED <<basisVars, watchVars>>

SpecLarge == InitLarge /\ [][NextLarge]_vars

-----------------------------------------------------------------------------
(* cell_axes.py: PutCenterCallback and the command that loads it.          *)

\* cell_axes commands issued in one behaviour
MaxCmds == 2

\* threads started and not yet run, over all watchers
MaxTasks == 2

\* the default name of the object cell_axes creates
Target == "cell_axes"

\* "_cb%02d" % n, the names cmd.get_unused_name("_cb") hands out
CbName(n) ==
    CASE n = 1 -> "_cb01" [] n = 2 -> "_cb02" [] n = 3 -> "_cb03" [] n = 4 -> "_cb04"
      [] n = 5 -> "_cb05" [] n = 6 -> "_cb06" [] n = 7 -> "_cb07" [] n = 8 -> "_cb08"
      [] n = 9 -> "_cb09"

CbNames == {CbName(n) : n \in 1..MaxCmds}

\* cmd.get_unused_name("_cb"): the first numbered name no object has
UnusedName(names) ==
    CbName(CHOOSE n \in 1..MaxCmds :
              /\ CbName(n) \notin names
              /\ \A k \in 1..(n - 1) : CbName(k) \in names)

NoWatcher == [name |-> "", corner |-> 0, prev_v |-> <<>>, wid |-> 0]

\* the views cmd.get_view may return: rotation (9), camera position (3), origin
\* of rotation (3), clipping planes and orthoscopic flag (3).  In the third the
\* camera sits on the origin of rotation (v[11] = 0), as after set_view.
Views ==
    { <<1, 0, 0,  0, 1, 0,  0, 0, 1,  0, 0, -60,  5, 0, 0,  40, 80, -20>>,
      <<0, 1, 0, -1, 0, 0,  0, 0, 1,  0, 0, -30,  5, 10, 0, 20, 40, -20>>,
      <<1, 0, 0,  0, 1, 0,  0, 0, 1,  0, 0, 0,    5, 0, 0,  40, 80, -20>> }

Viewports == { <<640, 480>> }

\* v[n] with the source's index
V(v, n) == R(v[n + 1])

\* Python's float division: ZeroDivisionError for a zero divisor
PyDivOk(y) == y # R(0)

\* chempy.cpv.transform(m, v): the 3x3 matrix m applied to v
CpvTransform(m, v) ==
    LET e(r) == RAdd(RAdd(RMul(m[r][1], v[1]), RMul(m[r][2], v[2])), RMul(m[r][3], v[3]))
    IN  Vec3(e)

\* __call__, lines 50-64: the matrix for set_object_ttt, or the exception
\* raised on the way
Placement(v, corner, vp) ==
    LET t0 == <<V(v, 12), V(v, 13), V(v, 14)>>
        R_mc == << <<V(v, 0), V(v, 1), V(v, 2)>>,
                   <<V(v, 3), V(v, 4), V(v, 5)>>,
                   <<V(v, 6), V(v, 7), V(v, 8)>> >>
        x0 == RDiv(RMul(RMul(Frac(15, 100), V(v, 11)), R(vp[1])), R(vp[2]))
        y0 == RMul(Frac(15, 100), V(v, 11))
        off_c == << IF corner \in {2, 3} THEN RNeg(x0) ELSE x0,
                    IF corner \in {3, 4} THEN RNeg(y0) ELSE y0,
                    R(0) >>
        t == IF corner # 0 THEN VAdd(t0, CpvTransform(R_mc, off_c)) ELSE t0
        z == RDiv(RNeg(V(v, 11)), R(30))
    IN  IF corner # 0 /\ ~PyDivOk(R(vp[2]))
        THEN [outcome |-> "ZeroDivisionError", m |-> <<>>]
        ELSE IF ~PyDivOk(z)
        THEN [outcome |-> "ZeroDivisionError", m |-> <<>>]
        ELSE [outcome |-> "ok",
              m |-> << z, R(0), R(0), R(0),
                       R(0), z, R(0), R(0),
                       R(0), R(0), z, R(0),
                       RDiv(t[1], z), RDiv(t[2], z), RDiv(t[3], z), R(1) >>]

\* line 46: v == self.prev_v
SameView(v, prev_v) == v = prev_v

\* threads started and not yet run
RECURSIVE PendingUpTo(_)
PendingUpTo(k) == IF k = 0 THEN 0 ELSE tasks[CbName(k)] + PendingUpTo(k - 1)

Pending == PendingUpTo(MaxCmds)

\* PutCenterCallback.__call__ (lines 38-65), called by the host's render loop
\* for the callback object cb
Tick(cb) ==
    /\ cb \in objects
    /\ callbacks[cb].wid # 0
    /\ LET w == callbacks[cb]
           seen == [cb |-> cb, wid |-> w.wid, exists |-> w.name \in objects,
                    view |-> view, prev |-> w.prev_v]
       IN  IF w.name \notin objects
           THEN /\ Pending < MaxTasks
                /\ tasks' = [tasks EXCEPT ![cb] = @ + 1]
                /\ spawned' = [spawned EXCEPT ![w.wid] = @ + 1]
                /\ last_tick' = [seen |-> seen, placed |-> FALSE, raised |-> FALSE]
                /\ UNCHANGED <<callbacks, ttt>>
           ELSE IF SameView(view, w.prev_v)
           THEN /\ last_tick' = [seen |-> seen, placed |-> FALSE, raised |-> FALSE]
                /\ UNCHANGED <<callbacks, ttt, tasks, spawned>>
           ELSE LET p == Placement(view, w.corner, viewport)
                IN  /\ callbacks' = [callbacks EXCEPT ![cb].prev_v = view]
                    /\ ttt' = IF p.outcome = "ok" THEN p.m ELSE ttt
                    /\ last_tick' = [seen |-> seen, placed |-> p.outcome = "ok",
                                     raised |-> p.outcome # "ok"]
                    /\ UNCHANGED <<tasks, spawned>>
    /\ UNCHANGED <<objects, view, viewport, pc_ca, cmds, auto_zoom>>

\* a thread started at line 42 runs cmd.delete(cb_name)
DeleteTask(cb) ==
    /\ tasks[cb] > 0
    /\ tasks' = [tasks EXCEPT ![cb] = @ - 1]
    /\ objects' = objects \ {cb}
    /\ callbacks' = [callbacks EXCEPT ![cb] = NoWatcher]
    /\ UNCHANGED <<view, viewport, pc_ca, cmds, spawned, last_tick, ttt, auto_zoom>>

\* cell_axes, lines 89-146: up to and including PutCenterCallback(name, 1).load()
CellAxesLoad ==
    /\ pc_ca = "idle"
    /\ cmds < MaxCmds
    /\ LET cb_name == UnusedName(objects)
       IN  /\ callbacks' = [callbacks EXCEPT ![cb_name] =
                               [name |-> Target, corner |-> 1, prev_v |-> <<>>,
                                wid |-> cmds + 1]]
           /\ objects' = objects \cup {cb_name}
    /\ spawned' = Append(spawned, 0)
    /\ cmds' = cmds + 1
    /\ auto_zoom' = 0
    /\ pc_ca' = "loaded"
    /\ UNCHANGED <<view, viewport, tasks, last_tick, ttt>>

\* cell_axes, line 147: cmd.load_cgo(obj, name), then the command returns
CellAxesLoadCgo ==
    /\ pc_ca = "loaded"
    /\ objects' = objects \cup {Target}
    /\ pc_ca' = "idle"
    /\ UNCHANGED <<callbacks, view, viewport, tasks, cmds, spawned, last_tick, ttt,
                   auto_zoom>>

\* the user moves the camera
SetView(v) ==
    /\ v # view
    /\ view' = v
    /\ UNCHANGED <<objects, callbacks, viewport, tasks, pc_ca, cmds, spawned, last_tick,
                   ttt, auto_zoom>>

\* the user deletes the target object
DeleteTarget ==
    /\ Target \in objects
    /\ objects' = objects \ {Target}
    /\ ttt' = <<>>
    /\ UNCHANGED <<callbacks, view, viewport, tasks, pc_ca, cmds, spawned, last_tick,
                   auto_zoom>>

InitWatch ==
    /\ objects = {}
    /\ callbacks = [c \in CbNames |-> NoWatcher]
    /\ view \in Views
    /\ viewport \in Viewports
    /\ tasks = [c \in CbNames |-> 0]
    /\ pc_ca = "idle"
    /\ cmds = 0
    /\ spawned = <<>>
    /\ last_tick = <<>>
    /\ ttt = <<>>
    /\ auto_zoom = 1
    /\ BasisIdle
    /\ CellIdle

NextWatch ==
    \/ \E cb \in CbNames : Tick(cb) /\ UNCHANGED <<basisVars, cellVars>>
    \/ \E cb \in CbNames : DeleteTask(cb) /\ UNCHANGED <<basisVars, cellVars>>
    \/ CellAxesLoad /\ UNCHANGED <<basisVars, cellVars>>
    \/ CellAxesLoadCgo /\ UNCHANGED <<basisVars, cellVars>>
    \/ \E v \in Views : SetView(v) /\ UNCHANGED <<basisVars, cellVars>>
    \/ DeleteTarget /\ UNCHANGED <<basisVars, cellVars>>

SpecWatch == InitWatch /\ [][NextWatch]_vars

-----------------------------------------------------------------------------
(* Properties.                                                             *)

NumOps == Len(sg_sym_to_mat_list(sym.spacegroup))

CountCalls(c, t, op) ==
    Cardinality({n \in DOMAIN hostcalls :
                    hostcalls[n].cmd = c /\ hostcalls[n].t = t /\ hostcalls[n].op = op})

ObjBasis == cellbasis(sym.angles, sym.edges).basis

CenterCart == Center(extent) \o <<R(1)>>

InCell(x, t) == \A n \in 1..3 : RLe(R(t[n]), x[n]) /\ RLt(x[n], R(t[n] + 1))

\* C1: after a supercell run with withmates on a cell with a finite invertible
\* basis, every replica offset and every operator of the space group has had
\* create and transform_object issued exactly once.
C1_OnePlacedCopyPerOperator ==
    (pc = "done" /\ args.cmd = "supercell" /\ args.withmates # 0
        /\ Invertible(ObjBasis)) =>
        \A k \in DOMAIN ts : \A op \in 1..NumOps :
            /\ CountCalls("create", ts[k], op) = 1
            /\ CountCalls("transform_object", ts[k], op) = 1

\* C2: a call of cellbasis leaves the edges list as it was, and every later
\* call on the same list objects returns what the first call returned.
C2_CellbasisPure ==
    /\ returned # <<>> => Len(edges) = 3
    /\ \A k \in DOMAIN returned : returned[k] = returned[1]

\* C3: whenever the reference center has fractional coordinates (the basis is
\* finite and invertible), every transform handed to the host maps the center
\* into the replica cell of the requested offset, offset <= image < offset + 1
\* in each fractional component; and for the identity operator, a center
\* inside the origin cell and offset (0,0,0) the transform is the identity.
C3_MateCenterInTargetCell ==
    (pc # "off" /\ Invertible(ObjBasis)) =>
        LET inv == UpperInverse(ObjBasis)
            center == CenterCart
            center_frac == MatVec(inv, center)
            ops == sg_sym_to_mat_list(sym.spacegroup)
        IN  \A n \in DOMAIN hostcalls :
                hostcalls[n].cmd = "transform_object" =>
                    /\ InCell(MatVec(inv, MatVec(hostcalls[n].arg, center)), hostcalls[n].t)
                    /\ ( /\ ops[hostcalls[n].op] = Identity4
                         /\ InCell(center_frac, <<0, 0, 0>>)
                         /\ hostcalls[n].t = <<0, 0, 0>> )
                       => hostcalls[n].arg = Identity4

\* a symmetry mate of the second operator placed by a symexpcell command with
\* offset (-1, 0, 1), for a center outside the origin cell of a sheared cell
C3_Witness ==
    /\ pc = "done"
    /\ Invertible(ObjBasis)
    /\ sym.angles = <<Deg90, Pyth, Deg90>>
    /\ ~InCell(MatVec(UpperInverse(ObjBasis), CenterCart), <<0, 0, 0>>)
    /\ \E n \in DOMAIN hostcalls :
          /\ hostcalls[n].cmd = "transform_object"
          /\ hostcalls[n].op = 2
          /\ hostcalls[n].t = <<-1, 0, 1>>

LexLess(u, v) ==
    \/ u[1] < v[1]
    \/ u[1] = v[1] /\ u[2] < v[2]
    \/ u[1] = v[1] /\ u[2] = v[2] /\ u[3] < v[3]

\* the CGO list holds 6 header entries, then 8 entries per segment
HeaderLen == Len(ObjHeader)

ReplicaStart(k) == HeaderLen + 96 * (k - 1)

Triple(s, p) == <<s[p], s[p + 1], s[p + 2]>>

\* replica k of ts has been drawn in full
Complete(k) == k < t_idx

IsCreate(call) == call.cmd = "create"

CreateIdx == {n \in DOMAIN hostcalls : IsCreate(hostcalls[n])}

\* C4: ts is the product range(a) x range(b) x range(c), each offset once, in
\* row-major order (a outermost, c innermost), and the replicas are drawn and
\* populated in the order of ts.
C4_RowMajorOffsets ==
    args.cmd = "supercell" =>
        /\ Len(ts) = args.a * args.b * args.c
        /\ {ts[k] : k \in DOMAIN ts}
              = (0..(args.a - 1)) \X (0..(args.b - 1)) \X (0..(args.c - 1))
        /\ \A k \in 1..(Len(ts) - 1) : LexLess(ts[k], ts[k + 1])
        /\ args = [cmd |-> "supercell", a |-> 2, b |-> 1, c |-> 1, withmates |-> args.withmates]
              => ts = << <<0, 0, 0>>, <<1, 0, 0>> >>
        /\ pc = "loop" => Len(obj) = ReplicaStart(t_idx)
        /\ pc = "done" => Len(obj) = ReplicaStart(Len(ts) + 1) + 1
        /\ \A k \in DOMAIN ts :
              Complete(k) => Triple(obj, ReplicaStart(k) + 2) = Shift(basis, ts[k])
        /\ LET created == SelectSeq(hostcalls, IsCreate)
           IN  /\ \A n \in 1..(Len(created) - 1) : ~LexLess(created[n + 1].t, created[n].t)
               /\ \A n \in DOMAIN created :
                      \E k \in 1..t_idx : k <= Len(ts) /\ created[n].t = ts[k]

\* a finished 2 x 2 x 2 supercell with symmetry mates on a sheared cell
C4_Witness ==
    /\ pc = "done"
    /\ args = [cmd |-> "supercell", a |-> 2, b |-> 2, c |-> 2, withmates |-> 1]
    /\ sym.angles = <<Deg90, Deg90, Pyth>>
    /\ CreateIdx # {}

ScaleV(n, v) == LET e(d) == RMul(R(n), v[d]) IN Vec3(e)

\* shift = i*A + j*B + k*C for the cell vectors A, B, C = v[1], v[2], v[3]
Origin(v, t) == VAdd(VAdd(ScaleV(t[1], v[1]), ScaleV(t[2], v[2])), ScaleV(t[3], v[3]))

\* the corners 0, v1, v2 and v1 + v2 spanned by the two axes other than n
CornersOf(v, n) ==
    LET v1 == CASE n = 0 -> v[2] [] n = 1 -> v[3] [] n = 2 -> v[1]
        v2 == CASE n = 0 -> v[3] [] n = 1 -> v[1] [] n = 2 -> v[2]
    IN  << <<R(0), R(0), R(0)>>, v1, v2, VAdd(v1, v2) >>

\* C5: every drawn replica holds exactly 12 segments (24 vertices): for each
\* axis n and each of the 4 corners of the other two axes, one segment from
\* shift + corner to shift + corner + v_n.
C5_TwelveSegmentsPerReplica ==
    args.cmd = "supercell" =>
        /\ pc = "done" => Len(obj) = HeaderLen + 8 * 12 * Len(ts) + 1
        /\ LET v == <<Col(basis, 0), Col(basis, 1), Col(basis, 2)>>
               corners == <<CornersOf(v, 0), CornersOf(v, 1), CornersOf(v, 2)>>
           IN  \A k \in DOMAIN ts :
                  Complete(k) =>
                      LET shift == <<Origin(v, ts[k])>>
                      IN  \A n \in 0..2 : \A j \in 0..3 :
                              LET p == ReplicaStart(k) + 8 * (4 * n + j)
                                  from == <<VAdd(shift[1], corners[n + 1][j + 1])>>
                              IN  /\ obj[p + 1] = "VERTEX"
                                  /\ Triple(obj, p + 2) = from[1]
                                  /\ obj[p + 5] = "VERTEX"
                                  /\ Triple(obj, p + 6) = VAdd(from[1], v[n + 1])

\* a finished 2 x 2 x 2 supercell on a sheared cell
C5_Witness ==
    /\ pc = "done"
    /\ args.cmd = "supercell"
    /\ Len(ts) = 8
    /\ sym.angles = <<Deg90, Pyth, Deg90>>
    /\ Len(obj) > HeaderLen

\* the radicand of line 21
Radicand(a) ==
    LET u == UnitBasis(a)
    IN  RSub(RSub(R(1), RMul(At(u, 0, 2), At(u, 0, 2))), RMul(At(u, 1, 2), At(u, 1, 2)))

Degenerate(a) == Sin(a[3]) = R(0) \/ ~RLe(R(0), Radicand(a))

\* C6: for a cell with sin(gamma) = 0 or a negative radicand cellbasis ends in
\* an error, and a matrix it returns has finite entries only.
C6_DegenerateCellRejected ==
    \A k \in DOMAIN returned :
        returned[k].outcome = "ok" =>
            /\ ~Degenerate(angles)
            /\ AllFinite(returned[k].basis)

\* C7: a tick that finds the target places it (set_object_ttt) if and only if
\* the view differs from the last-seen view, and leaves the last-seen view
\* equal to the view.
C7_PlacesIffViewDiffers ==
    (last_tick # <<>> /\ last_tick.seen.exists) =>
        /\ last_tick.placed <=> (last_tick.seen.view # last_tick.seen.prev)
        /\ callbacks[last_tick.seen.cb].wid = last_tick.seen.wid
              => callbacks[last_tick.seen.cb].prev_v = last_tick.seen.view

\* C8: a watcher starts at most one deregistration thread, and a tick that
\* finds the target missing places nothing.
C8_OneDeregistrationTask ==
    /\ \A w \in DOMAIN spawned : spawned[w] <= 1
    /\ (last_tick # <<>> /\ ~last_tick.seen.exists) => ~last_tick.placed

\* C9: once cell_axes has returned, a watcher of the target is registered
\* whenever the target exists.
C9_WatcherStaysRegistered ==
    (pc_ca = "idle" /\ cmds > 0 /\ Target \in objects) =>
        \E cb \in CbNames : cb \in objects /\ callbacks[cb].name = Target

\* C10: within one supercell run different (offset, operator position) pairs
\* get different object names: the create calls carry as many distinct names
\* as distinct pairs.
C10_MateNamesInjective ==
    args.cmd = "supercell" =>
        Cardinality({hostcalls[n].name : n \in CreateIdx})
            = Cardinality({<<hostcalls[n].t, hostcalls[n].op>> : n \in CreateIdx})

=============================================================================
